---- MODULE Spec2Model ----
(***************************************************************************)
(* The request pipeline of the Lambda Hubs API: the middleware chain that  *)
(* server.js registers, the hubs router mounted under /api/hubs, its two   *)
(* guards (validateId, requireBody), its terminal handlers, the error      *)
(* handler of server.js and the framework's built-in final handler.        *)
(*                                                                         *)
(* A handler is modelled by what it does with (req, res, next): it may     *)
(* change the request context, write the response, call next() or          *)
(* next(value), and suspend on one persistence call.  The dispatcher does  *)
(* what the framework does with those signals; it does not check that a    *)
(* handler behaves.                                                        *)
(***************************************************************************)
EXTENDS Integers, Sequences, FiniteSets, TLC

(***************************************************************************)
(* Bounds of the model.                                                    *)
(***************************************************************************)
\* requests accepted in one behaviour, over all clients
MaxArrivals == 2

\* connections that can have a request in flight at the same time, in the
\* order in which a new request takes a free one
Connections == <<"c1", "c2">>

Clients == {Connections[i] : i \in 1..Len(Connections)}

\* request paths, as segment lists
RootPath == <<>>
NopePath == <<"nope">>
HubsPath == <<"api", "hubs">>
HubPath(id) == <<"api", "hubs", id>>
HubMessagesPath(id) == <<"api", "hubs", id, "messages">>

\* the identifiers requests name: hub 1 is stored from the start, hub 2 is not
Ids == {"1", "2"}

\* new Date().getSeconds(): the ends of its range 0..59 and the seconds
\* around a multiple of 3
Seconds == {0, 1, 2, 3, 58, 59}

(***************************************************************************)
(* Values.                                                                 *)
(***************************************************************************)
\* a decoded body: req.body is undefined (present = FALSE) or a mapping,
\* kept as its set of <<key, value>> pairs
AbsentBody == [present |-> FALSE, fields |-> {}]
EmptyBody == [present |-> TRUE, fields |-> {}]
NamedBody == [present |-> TRUE, fields |-> {<<"name", "Acme">>}]
ForeignBody == [present |-> TRUE, fields |-> {<<"text", "hi">>, <<"hub_id", "2">>}]

Bodies == {AbsentBody, EmptyBody, NamedBody, ForeignBody}

Request(method, path, body) == [method |-> method, path |-> path, body |-> body]

\* the requests clients send: every registered METHOD/url, with the bodies its
\* chain distinguishes, and requests no route is registered for
Requests ==
  {Request("GET", p, AbsentBody) :
     p \in {RootPath, NopePath, HubsPath, HubMessagesPath("1")}}
  \cup {Request(m, HubPath(id), AbsentBody) : m \in {"GET", "DELETE"}, id \in Ids}
  \cup {Request("POST", HubsPath, b) : b \in {AbsentBody, EmptyBody, NamedBody}}
  \cup {Request("PUT", HubPath(id), b) : id \in Ids, b \in {EmptyBody, NamedBody}}
  \cup {Request("POST", HubMessagesPath("1"), b) : b \in {EmptyBody, ForeignBody}}
  \cup {Request("PUT", HubsPath, NamedBody)}

\* Object.keys(body)
Keys(fields) == {p[1] : p \in fields}

\* { ...fields, ...patch }: the keys of patch override those of fields
Spread(fields, patch) ==
  {p \in fields : p[1] \notin Keys(patch)} \cup patch

\* a stored hub or message
NoRec == [id |-> 0, fields |-> {}]

\* the value a handler passes to next(value)
NoErr == [message |-> ""]

NoReq == [method |-> "NONE", path |-> <<>>, body |-> AbsentBody]

\* custom data a middleware put on req: req.hub and req.name
NoCtx == [hasHub |-> FALSE, hub |-> NoRec, name |-> ""]

\* a response body
Payload(tag, message, rec, list, err) ==
  [tag |-> tag, message |-> message, rec |-> rec, list |-> list, err |-> err]

NoPayload == Payload("none", "", NoRec, {}, NoErr)
Json(message) == Payload("message", message, NoRec, {}, NoErr)
JsonRec(rec) == Payload("record", "", rec, {}, NoErr)
JsonList(list) == Payload("list", "", NoRec, list, NoErr)

NoRes == [writes |-> 0, status |-> 0, body |-> NoPayload]

\* a call to the persistence layer
Call(op, id, data) == [op |-> op, id |-> id, data |-> data]
NoCall == Call("none", "", {})

\* what a persistence call gives back: ok = FALSE is a rejected promise
Result(ok, found, rec, list, count) ==
  [ok |-> ok, found |-> found, rec |-> rec, list |-> list, count |-> count]
NoResult == Result(FALSE, FALSE, NoRec, {}, 0)
Rejected == Result(FALSE, FALSE, NoRec, {}, 0)

VARIABLES
  req,       \* req[c]: the request client c has in flight (method, path, body)
  ctx,       \* ctx[c]: req.hub and req.name
  disp,      \* disp[c]: the dispatcher's track, position, failure value, and
             \*          whether a call of next() is waiting to be served
  calls,     \* calls[c]: handlers suspended on a persistence call
  res,       \* res[c]: the response: number of writes, status, body
  log,       \* log[c]: what happened to the request, in order
  hubs,      \* the stored hubs
  messages,  \* the stored messages
  nextId,    \* the next identifier the store generates
  arrivals,  \* requests accepted so far
  answered,  \* the paths of the DELETE requests answered 200 so far
  seen       \* seen[c]: the value of answered when c's request arrived

vars ==
  <<req, ctx, disp, calls, res, log, hubs, messages, nextId, arrivals,
    answered, seen>>

(***************************************************************************)
(* The route table: what server.use(), router.use() and router.METHOD()    *)
(* register, in registration order.                                        *)
(***************************************************************************)
\* a segment of a registered path: literal text or :name
Lit(s) == [param |-> FALSE, name |-> s]
Param(n) == [param |-> TRUE, name |-> n]

\* kind "use": a middleware for every method under a path;
\* kind "error": the same, taking (error, req, res, next);
\* kind "route": one handler of a METHOD/url chain
Entry(kind, method, path, h) ==
  [kind |-> kind, method |-> method, path |-> path, h |-> h]

Use(path, h) == <<Entry("use", "ALL", path, h)>>
UseError(path, h) == <<Entry("error", "ALL", path, h)>>

\* router.METHOD(path, h1, ..., hn): the chain, one entry per handler
Route(method, path, chain) ==
  [i \in 1..Len(chain) |-> Entry("route", method, path, chain[i])]

\* DELETE /:id registered without the guard
deleteChainUnguarded == <<"deleteHub">>

\* the chain registered for DELETE /:id
deleteChain == <<"validateId", "deleteHub">>

\* the chain registered for POST /
postChain == <<"requireBody", "postHub">>

\* PUT /:id registered with the body guard before the id guard
putChainBodyFirst == <<"requireBody", "validateId", "putHub">>

\* the chain registered for PUT /:id
putChain == <<"validateId", "requireBody", "putHub">>

hubsRouter ==
  Use(<<>>, "hubsLogger")
  \o Route("GET", <<>>, <<"getHubs">>)
  \o Route("GET", <<Param("id")>>, <<"validateId", "getHub">>)
  \o Route("POST", <<>>, postChain)
  \o Route("DELETE", <<Param("id")>>, deleteChain)
  \o Route("PUT", <<Param("id")>>, putChain)
  \o Route("GET", <<Param("id"), Lit("messages")>>,
           <<"validateId", "getHubMessages">>)
  \o Route("POST", <<Param("id"), Lit("messages")>>,
           <<"validateId", "requireBody", "postHubMessage">>)

\* a mount that puts the prefix after the router's own path
MountSuffix(prefix, router) ==
  [i \in 1..Len(router) |-> [router[i] EXCEPT !.path = @ \o prefix]]

\* server.use(prefix, router): the router's entries, each under the prefix
Mount(prefix, router) ==
  [i \in 1..Len(router) |-> [router[i] EXCEPT !.path = prefix \o @]]

\* the global middleware registered before the mount
preMount == Use(<<>>, "methodLogger") \o Use(<<>>, "json")

\* the global middleware registered after the mount
postMount ==
  Use(<<>>, "helmet") \o Use(<<>>, "addName") \o Use(<<>>, "morgan")
  \o Use(<<>>, "gateKeeper")

\* the router mounted after the rest of the global middleware
serverMountLast ==
  preMount
  \o postMount
  \o Mount(<<Lit("api"), Lit("hubs")>>, hubsRouter)
  \o UseError(<<>>, "errorHandler")
  \o Route("GET", <<>>, <<"root">>)

\* the router mounted after helmet
serverMountAfterHelmet ==
  preMount
  \o Use(<<>>, "helmet")
  \o Mount(<<Lit("api"), Lit("hubs")>>, hubsRouter)
  \o Use(<<>>, "addName") \o Use(<<>>, "morgan") \o Use(<<>>, "gateKeeper")
  \o UseError(<<>>, "errorHandler")
  \o Route("GET", <<>>, <<"root">>)

\* the error handler registered before the router is mounted
serverErrorFirst ==
  preMount
  \o UseError(<<>>, "errorHandler")
  \o Mount(<<Lit("api"), Lit("hubs")>>, hubsRouter)
  \o postMount
  \o Route("GET", <<>>, <<"root">>)

server ==
  preMount
  \o Mount(<<Lit("api"), Lit("hubs")>>, hubsRouter)
  \o postMount
  \o UseError(<<>>, "errorHandler")
  \o Route("GET", <<>>, <<"root">>)

(***************************************************************************)
(* Path matching.                                                          *)
(***************************************************************************)
SegMatch(seg, s) == IF seg.param THEN s # "" ELSE seg.name = s

\* a route's path matches a request path of the same length, segment by segment
MatchPattern(pattern, path) ==
  /\ Len(pattern) = Len(path)
  /\ \A i \in 1..Len(pattern) : SegMatch(pattern[i], path[i])

\* a middleware's path matches every request path it is a prefix of
MatchPrefix(scope, path) ==
  /\ Len(scope) <= Len(path)
  /\ \A i \in 1..Len(scope) : SegMatch(scope[i], path[i])

\* req.params[name] for the entry that is running, "" when it has none
ParamOf(pattern, path, name) ==
  LET at == {i \in 1..Len(pattern) :
               i <= Len(path) /\ pattern[i].param /\ pattern[i].name = name}
  IN IF at = {} THEN "" ELSE path[CHOOSE i \in at : TRUE]

\* route entries taken for every method
EligibleAnyMethod(e, q, track) ==
  IF track = "ERROR_DISPATCH"
  THEN e.kind = "error" /\ MatchPrefix(e.path, q.path)
  ELSE \/ e.kind = "use" /\ MatchPrefix(e.path, q.path)
       \/ e.kind = "route" /\ MatchPattern(e.path, q.path)

\* entry e takes part in serving request q on the given track
Eligible(e, q, track) ==
  IF track = "ERROR_DISPATCH"
  THEN e.kind = "error" /\ MatchPrefix(e.path, q.path)
  ELSE \/ e.kind = "use" /\ MatchPrefix(e.path, q.path)
       \/ e.kind = "route" /\ e.method = q.method /\ MatchPattern(e.path, q.path)

\* the next entry after position pos that serves q on the track, 0 when none
NextPos(seq, pos, q, track) ==
  LET after == {p \in (pos + 1)..Len(seq) : Eligible(seq[p], q, track)}
  IN IF after = {} THEN 0 ELSE CHOOSE p \in after : \A o \in after : p <= o

(***************************************************************************)
(* What one run of a handler does, up to its first await or to its end.    *)
(***************************************************************************)
\* next: "advance" for next(), "fail" for next(value), "none" for neither;
\* write: the handler wrote the response; call: it suspended on this call
Quiet(c) ==
  [next |-> "none", err |-> NoErr, write |-> FALSE, status |-> 0,
   body |-> NoPayload, call |-> NoCall, ctx |-> ctx[c]]

Advance(c) == [Quiet(c) EXCEPT !.next = "advance"]
Fail(c, value) == [Quiet(c) EXCEPT !.next = "fail", !.err = value]
Respond(c, status, body) ==
  [Quiet(c) EXCEPT !.write = TRUE, !.status = status, !.body = body]
Await(c, call) == [Quiet(c) EXCEPT !.call = call]

(***************************************************************************)
(* server.js                                                               *)
(***************************************************************************)
methodLogger(c) == Advance(c)

\* express.json(): req.body is already the decoded body
json(c) == Advance(c)

helmet(c) == Advance(c)

morgan(c) == Advance(c)

\* addName that leaves req.name unset
addNameUnset(c) == Advance(c)

addName(c) == [Advance(c) EXCEPT !.ctx.name = "sk"]

\* a gate keeper that answers 403 and calls next() all the same
gateKeeperLeaky(c, seconds) ==
  IF seconds % 3 = 0
  THEN [Respond(c, 403, Json("I hate 3...")) EXCEPT !.next = "advance"]
  ELSE Advance(c)

gateKeeper(c, seconds) ==
  IF seconds % 3 = 0
  THEN Respond(c, 403, Json("I hate 3..."))
  ELSE Advance(c)

\* an error handler that neither answers nor calls next()
errorHandlerSilent(c, error) == Quiet(c)

\* an error handler that passes on an error object of its own
errorHandlerRewrap(c, error) == Fail(c, [message |-> "error!"])

errorHandler(c, error) == Fail(c, error)

root(c) == Respond(c, 200, Payload("html", ctx[c].name, NoRec, {}, NoErr))

(***************************************************************************)
(* hubs/hubs-router.js                                                     *)
(***************************************************************************)
hubsLogger(c) == Advance(c)

\* a guard that calls next() without waiting for its lookup
validateIdEager(c, id) ==
  [Await(c, Call("findById", id, {})) EXCEPT !.next = "advance"]

validateId(c, id) == Await(c, Call("findById", id, {}))

\* a guard that does not test what the lookup returned
validateIdUnchecked(c, r) ==
  IF r.ok
  THEN [Advance(c) EXCEPT !.ctx.hasHub = TRUE, !.ctx.hub = r.rec]
  ELSE Fail(c, [message |-> "some major jam..."])

validateIdThen(c, r) ==
  IF r.ok
  THEN IF r.found
       THEN [Advance(c) EXCEPT !.ctx.hasHub = TRUE, !.ctx.hub = r.rec]
       ELSE Fail(c, [message |-> "the id you sent was invalid"])
  ELSE Fail(c, [message |-> "some major jam..."])

\* a guard that only tests that there is a body
requireBodyTruthy(c) ==
  IF req[c].body.present
  THEN Advance(c)
  ELSE Fail(c, [message |-> "You need to supply a body with this request"])

requireBody(c) ==
  IF req[c].body.present /\ Cardinality(Keys(req[c].body.fields)) > 0
  THEN Advance(c)
  ELSE Fail(c, [message |-> "You need to supply a body with this request"])

getHubs(c) == Await(c, Call("find", "", {}))

\* a handler that passes a failed call on with next(value)
getHubsThenSignal(c, r) ==
  IF r.ok
  THEN Respond(c, 200, JsonList(r.list))
  ELSE Fail(c, [message |-> "Error retrieving the hubs"])

getHubsThen(c, r) ==
  IF r.ok
  THEN Respond(c, 200, JsonList(r.list))
  ELSE Respond(c, 500, Json("Error retrieving the hubs"))

\* a handler that reads the hub from the store again instead of using req.hub
getHubRefetched(c) ==
  LET stored == {h \in hubs : ToString(h.id) = req[c].path[3]}
  IN Respond(c, 200, JsonRec(IF stored = {} THEN NoRec ELSE CHOOSE h \in stored : TRUE))

getHub(c) == Respond(c, 200, JsonRec(ctx[c].hub))

postHub(c) == Await(c, Call("add", "", req[c].body.fields))

postHubThen(c, r) ==
  IF r.ok
  THEN Respond(c, 201, JsonRec(r.rec))
  ELSE Respond(c, 500, Json("Error adding the hub"))

deleteHub(c, id) == Await(c, Call("remove", id, {}))

\* a DELETE handler that takes a count of 1 for nothing removed
deleteHubThenOffByOne(c, r) ==
  IF r.ok
  THEN IF r.count > 1
       THEN Respond(c, 200, Json("The hub has been nuked"))
       ELSE Respond(c, 404, Json("The hub could not be found"))
  ELSE Respond(c, 500, Json("Error removing the hub"))

deleteHubThen(c, r) ==
  IF r.ok
  THEN IF r.count > 0
       THEN Respond(c, 200, Json("The hub has been nuked"))
       ELSE Respond(c, 404, Json("The hub could not be found"))
  ELSE Respond(c, 500, Json("Error removing the hub"))

putHub(c, id) == Await(c, Call("update", id, req[c].body.fields))

putHubThen(c, r) ==
  IF r.ok
  THEN IF r.found
       THEN Respond(c, 200, JsonRec(r.rec))
       ELSE Respond(c, 404, Json("The hub could not be found"))
  ELSE Respond(c, 500, Json("Error updating the hub"))

getHubMessages(c, id) == Await(c, Call("findHubMessages", id, {}))

getHubMessagesThen(c, r) ==
  IF r.ok
  THEN Respond(c, 200, JsonList(r.list))
  ELSE Respond(c, 500, Json("Error getting the messages for the hub"))

postHubMessage(c, id) ==
  Await(c, Call("addMessage", "", Spread(req[c].body.fields, {<<"hub_id", id>>})))

postHubMessageThen(c, r) ==
  IF r.ok
  THEN Respond(c, 210, JsonRec(r.rec))
  ELSE Respond(c, 500, Json("Error getting the messages for the hub"))

\* the handler named h, called with (req, res, next) or (error, req, res, next)
Start(h, c, id, error, seconds) ==
  CASE h = "methodLogger" -> methodLogger(c)
    [] h = "json" -> json(c)
    [] h = "helmet" -> helmet(c)
    [] h = "morgan" -> morgan(c)
    [] h = "addName" -> addName(c)
    [] h = "gateKeeper" -> gateKeeper(c, seconds)
    [] h = "errorHandler" -> errorHandler(c, error)
    [] h = "root" -> root(c)
    [] h = "hubsLogger" -> hubsLogger(c)
    [] h = "validateId" -> validateId(c, id)
    [] h = "requireBody" -> requireBody(c)
    [] h = "getHubs" -> getHubs(c)
    [] h = "getHub" -> getHub(c)
    [] h = "postHub" -> postHub(c)
    [] h = "deleteHub" -> deleteHub(c, id)
    [] h = "putHub" -> putHub(c, id)
    [] h = "getHubMessages" -> getHubMessages(c, id)
    [] h = "postHubMessage" -> postHubMessage(c, id)

\* the rest of the handler named h, once its persistence call has settled
Then(h, c, r) ==
  CASE h = "validateId" -> validateIdThen(c, r)
    [] h = "getHubs" -> getHubsThen(c, r)
    [] h = "postHub" -> postHubThen(c, r)
    [] h = "deleteHub" -> deleteHubThen(c, r)
    [] h = "putHub" -> putHubThen(c, r)
    [] h = "getHubMessages" -> getHubMessagesThen(c, r)
    [] h = "postHubMessage" -> postHubMessageThen(c, r)

(***************************************************************************)
(* The persistence layer (hubs-model.js, messages-model.js), by its        *)
(* interface: each operation reads or changes the store in one step.       *)
(***************************************************************************)
\* the stored hubs whose identifier is written as the text id
HubsWithId(id) == {h \in hubs : ToString(h.id) = id}

\* what the call returns when it succeeds
Returned(call) ==
  CASE call.op = "find" -> Result(TRUE, TRUE, NoRec, hubs, 0)
    [] call.op = "findById" ->
         IF HubsWithId(call.id) = {}
         THEN Result(TRUE, FALSE, NoRec, {}, 0)
         ELSE Result(TRUE, TRUE, CHOOSE h \in HubsWithId(call.id) : TRUE, {}, 0)
    [] call.op = "add" ->
         Result(TRUE, TRUE, [id |-> nextId, fields |-> call.data], {}, 0)
    [] call.op = "update" ->
         IF HubsWithId(call.id) = {}
         THEN Result(TRUE, FALSE, NoRec, {}, 0)
         ELSE LET old == CHOOSE h \in HubsWithId(call.id) : TRUE
              IN Result(TRUE, TRUE,
                        [old EXCEPT !.fields = Spread(@, call.data)], {}, 0)
    [] call.op = "remove" ->
         Result(TRUE, TRUE, NoRec, {}, Cardinality(HubsWithId(call.id)))
    [] call.op = "findHubMessages" ->
         Result(TRUE, TRUE, NoRec,
                {m \in messages : <<"hub_id", call.id>> \in m.fields}, 0)
    [] call.op = "addMessage" ->
         Result(TRUE, TRUE,
                [id |-> Cardinality(messages) + 1, fields |-> call.data], {}, 0)

\* the stored hubs after the call succeeded
HubsAfter(call) ==
  CASE call.op = "add" -> hubs \cup {Returned(call).rec}
    [] call.op = "update" ->
         IF Returned(call).found
         THEN (hubs \ HubsWithId(call.id)) \cup {Returned(call).rec}
         ELSE hubs
    [] call.op = "remove" -> hubs \ HubsWithId(call.id)
    [] OTHER -> hubs

\* the stored messages after the call succeeded
MessagesAfter(call) ==
  IF call.op = "addMessage"
  THEN messages \cup {Returned(call).rec}
  ELSE messages

(***************************************************************************)
(* The dispatcher.                                                         *)
(***************************************************************************)
Ev(ev, h, pos, status, val, rec) ==
  [ev |-> ev, h |-> h, pos |-> pos, status |-> status, val |-> val, rec |-> rec]

\* how a persistence call settled
Outcome(r) ==
  CASE ~r.ok -> "rejected"
    [] r.found -> "ok"
    [] OTHER -> "absent"

NoDisp == [track |-> "IDLE", pos |-> 0, err |-> NoErr, ready |-> FALSE]

\* the position after the last registered entry, where the framework's own
\* final handler stands
FinalPos == Len(server) + 1

\* the response after a run of a handler with outcome o
Written(c, o) ==
  IF o.write
  THEN IF res[c].writes = 0
       THEN [writes |-> 1, status |-> o.status, body |-> o.body]
       ELSE [res[c] EXCEPT !.writes = @ + 1]
  ELSE res[c]

\* the dispatcher after a run, at position pos, of a handler with outcome o
Signalled(c, pos, o) ==
  [track |-> CASE o.next = "fail" -> "ERROR_DISPATCH"
               [] o.next = "advance" -> "NORMAL_DISPATCH"
               [] OTHER -> disp[c].track,
   pos |-> pos,
   err |-> CASE o.next = "fail" -> o.err
             [] o.next = "advance" -> NoErr
             [] OTHER -> disp[c].err,
   ready |-> o.next # "none"]

\* the events of a run of handler h with outcome o
Events(h, pos, o) ==
  (IF o.call # NoCall THEN <<Ev("call", h, pos, 0, o.call.op, NoRec)>> ELSE <<>>)
  \o (IF o.write
      THEN <<Ev("write", h, pos, o.status, o.body.message, o.body.rec)>>
      ELSE <<>>)
  \o (CASE o.next = "fail" -> <<Ev("fail", h, pos, 0, o.err.message, NoRec)>>
        [] o.next = "advance" -> <<Ev("advance", h, pos, 0, "", NoRec)>>
        [] OTHER -> <<>>)

\* the DELETE requests answered 200 so far, after a run for client c with
\* outcome o
Answered(c, o) ==
  IF o.write /\ res[c].writes = 0 /\ req[c].method = "DELETE" /\ o.status = 200
  THEN answered \cup {req[c].path}
  ELSE answered

\* the dispatcher's next stop for every request, position and track; the
\* route table does not change once the server is built
Tracks == {"NORMAL_DISPATCH", "ERROR_DISPATCH"}

NextStop ==
  [track \in Tracks |->
     [pos \in 0..FinalPos |->
        [q \in Requests |-> NextPos(server, pos, q, track)]]]

\* the state the spec gives the request of client c
DispatchState(c) ==
  CASE disp[c].track = "IDLE" -> "IDLE"
    [] res[c].writes > 0 -> "TERMINATED"
    [] OTHER -> disp[c].track

\* nothing of client c's last request is still running
Quiescent(c) ==
  /\ ~disp[c].ready
  /\ calls[c] = {}
  /\ disp[c].track = "IDLE" \/ res[c].writes > 0

\* client c's connection is the first free one
FirstFree(c) ==
  \E i \in 1..Len(Connections) :
    /\ Connections[i] = c
    /\ \A j \in 1..(i - 1) : ~Quiescent(Connections[j])

\* JavaScript runs one callback at a time, to completion: while the chain of
\* one request is running (a call of next() is being served), nothing of
\* another request runs, up to the running handler's await or its last line
Turn(c) == \A d \in Clients \ {c} : ~disp[d].ready

Init ==
  /\ req = [c \in Clients |-> NoReq]
  /\ ctx = [c \in Clients |-> NoCtx]
  /\ disp = [c \in Clients |-> NoDisp]
  /\ calls = [c \in Clients |-> {}]
  /\ res = [c \in Clients |-> NoRes]
  /\ log = [c \in Clients |-> <<>>]
  /\ hubs = {[id |-> 1, fields |-> {<<"name", "Lambda">>}]}
  /\ messages = {}
  /\ nextId = 2
  /\ arrivals = 0
  /\ answered = {}
  /\ seen = [c \in Clients |-> {}]

\* the transport hands the dispatcher a parsed request
Arrive(c) ==
  /\ arrivals < MaxArrivals
  /\ Quiescent(c)
  /\ FirstFree(c)
  /\ Turn(c)
  /\ \E q \in Requests : req' = [req EXCEPT ![c] = q]
  /\ ctx' = [ctx EXCEPT ![c] = NoCtx]
  /\ disp' = [disp EXCEPT ![c] =
                [track |-> "NORMAL_DISPATCH", pos |-> 0, err |-> NoErr,
                 ready |-> TRUE]]
  /\ res' = [res EXCEPT ![c] = NoRes]
  /\ log' = [log EXCEPT ![c] = <<>>]
  /\ arrivals' = arrivals + 1
  /\ seen' = [seen EXCEPT ![c] = answered]
  /\ UNCHANGED <<calls, hubs, messages, nextId, answered>>

\* next() or next(value) was called: the next entry that serves the request
\* on the current track is run
Invoke(c) ==
  /\ disp[c].ready
  /\ Turn(c)
  /\ NextStop[disp[c].track][disp[c].pos][req[c]] # 0
  /\ LET pos == NextStop[disp[c].track][disp[c].pos][req[c]] IN
     /\ LET e == server[pos] IN
        \E seconds \in (IF e.h = "gateKeeper" THEN Seconds ELSE {0}) :
          LET o == Start(e.h, c, ParamOf(e.path, req[c].path, "id"),
                         disp[c].err, seconds)
          IN /\ ctx' = [ctx EXCEPT ![c] = o.ctx]
             /\ res' = [res EXCEPT ![c] = Written(c, o)]
             /\ disp' = [disp EXCEPT ![c] = Signalled(c, pos, o)]
             /\ calls' = [calls EXCEPT ![c] =
                  IF o.call = NoCall THEN @
                  ELSE @ \cup {[pos |-> pos, h |-> e.h, call |-> o.call,
                                settled |-> FALSE, result |-> NoResult]}]
             /\ log' = [log EXCEPT ![c] =
                  @ \o <<Ev("start", e.h, pos, 0, ctx[c].name, NoRec)>>
                    \o Events(e.h, pos, o)]
             /\ answered' = Answered(c, o)
  /\ UNCHANGED <<req, hubs, messages, nextId, arrivals, seen>>

\* the framework's final handler: what it answers on each track
finalhandler(c, track, error) ==
  IF track = "ERROR_DISPATCH"
  THEN Respond(c, 500, Payload("error", "", NoRec, {}, error))
  ELSE Respond(c, 404, Json("Cannot serve the request"))

\* next() or next(value) was called and no entry is left on the track
Final(c) ==
  /\ disp[c].ready
  /\ Turn(c)
  /\ NextStop[disp[c].track][disp[c].pos][req[c]] = 0
  /\ LET o == finalhandler(c, disp[c].track, disp[c].err) IN
     /\ res' = [res EXCEPT ![c] = IF res[c].writes = 0 THEN Written(c, o) ELSE @]
     /\ disp' = [disp EXCEPT ![c] = [@ EXCEPT !.ready = FALSE, !.pos = FinalPos]]
     /\ log' = [log EXCEPT ![c] =
          @ \o <<Ev("start", "finalhandler", FinalPos, 0, ctx[c].name, NoRec)>>
            \o (IF res[c].writes = 0
                THEN <<Ev("write", "finalhandler", FinalPos, o.status,
                          o.body.message, NoRec)>>
                ELSE <<>>)]
     /\ answered' = Answered(c, o)
  /\ UNCHANGED <<req, ctx, calls, hubs, messages, nextId, arrivals, seen>>

\* a persistence call of client c succeeds
Settle(c) ==
  \E k \in calls[c] :
    /\ ~k.settled
    /\ \A d \in Clients : ~disp[d].ready
    /\ calls' = [calls EXCEPT ![c] =
         (@ \ {k}) \cup {[k EXCEPT !.settled = TRUE, !.result = Returned(k.call)]}]
    /\ hubs' = HubsAfter(k.call)
    /\ messages' = MessagesAfter(k.call)
    /\ nextId' = IF k.call.op = "add" THEN nextId + 1 ELSE nextId
    /\ UNCHANGED <<req, ctx, disp, res, log, arrivals, answered, seen>>

\* a persistence call of client c fails with a collaborator error
Reject(c) ==
  \E k \in calls[c] :
    /\ ~k.settled
    /\ \A d \in Clients : ~disp[d].ready
    /\ calls' = [calls EXCEPT ![c] =
         (@ \ {k}) \cup {[k EXCEPT !.settled = TRUE, !.result = Rejected]}]
    /\ UNCHANGED <<req, ctx, disp, res, log, hubs, messages, nextId, arrivals,
                   answered, seen>>

\* a handler goes on after its await
Resume(c) ==
  \E k \in calls[c] :
    /\ k.settled
    /\ Turn(c)
    /\ LET o == Then(k.h, c, k.result) IN
       /\ ctx' = [ctx EXCEPT ![c] = o.ctx]
       /\ res' = [res EXCEPT ![c] = Written(c, o)]
       /\ disp' = [disp EXCEPT ![c] = Signalled(c, disp[c].pos, o)]
       /\ calls' = [calls EXCEPT ![c] = @ \ {k}]
       /\ log' = [log EXCEPT ![c] =
            @ \o <<Ev("resume", k.h, k.pos, 0, Outcome(k.result), k.result.rec)>>
              \o Events(k.h, k.pos, o)]
       /\ answered' = Answered(c, o)
    /\ UNCHANGED <<req, hubs, messages, nextId, arrivals, seen>>

Next ==
  \E c \in Clients :
    \/ Arrive(c)
    \/ Invoke(c)
    \/ Final(c)
    \/ Settle(c)
    \/ Reject(c)
    \/ Resume(c)

Spec == Init /\ [][Next]_vars

(***************************************************************************)
(* The same system with the scheduling the runtime guarantees: a callback  *)
(* that is ready to run is run, and every persistence call settles.        *)
(***************************************************************************)
\* what happens to the request of client c once it has arrived
Step(c) == Invoke(c) \/ Final(c) \/ Settle(c) \/ Reject(c) \/ Resume(c)

Fairness == \A c \in Clients : WF_vars(Step(c))

LiveSpec == Init /\ [][Next]_vars /\ Fairness

(***************************************************************************)
(* Reading the log of a request.                                           *)
(***************************************************************************)
\* the positions in client c's log of the events of kind ev
At(c, ev) == {i \in 1..Len(log[c]) : log[c][i].ev = ev}

\* the handlers started for client c's request, in order
Started(c) ==
  LET starts == SelectSeq(log[c], LAMBDA e : e.ev = "start")
  IN [i \in 1..Len(starts) |-> starts[i].h]

\* the handlers started on the normal track, in order
StartedNormal(c) ==
  SelectSeq(Started(c), LAMBDA h : h \notin {"errorHandler", "finalhandler"})

IsPrefix(s, t) == Len(s) <= Len(t) /\ \A i \in 1..Len(s) : s[i] = t[i]

\* the request of client c has been answered
Answer(c) == res[c].writes > 0

\* the handler that wrote the answer
Writer(c) == log[c][CHOOSE i \in At(c, "write") : TRUE].h

(***************************************************************************)
(* C1.  Every request, whatever its method and path, ends in a written     *)
(* response, provided each persistence call it awaits settles: a request   *)
(* in NORMAL_DISPATCH or ERROR_DISPATCH is eventually TERMINATED.          *)
(***************************************************************************)
C1_EveryRequestAnswered ==
  \A c \in Clients :
    (DispatchState(c) \in {"NORMAL_DISPATCH", "ERROR_DISPATCH"})
      ~> (DispatchState(c) = "TERMINATED")

\* one request that matched no route and one whose lookup was rejected have
\* both been answered
C1_Witness ==
  \E c, d \in Clients :
    /\ c # d
    /\ Answer(c) /\ req[c].path = NopePath /\ Writer(c) = "finalhandler"
    /\ Answer(d)
    /\ \E i \in At(d, "resume") :
         log[d][i].h = "validateId" /\ log[d][i].val = "rejected"

(***************************************************************************)
(* C2.  At most one response write occurs per request; the write is the    *)
(* last thing that happens to the request: the handler that wrote does not *)
(* call next(), and no handler runs or resumes after it.                   *)
(***************************************************************************)
C2_AtMostOneWrite ==
  \A c \in Clients :
    /\ res[c].writes <= 1
    /\ Cardinality(At(c, "write")) = res[c].writes
    /\ \A i \in At(c, "write") : i = Len(log[c])
    /\ Answer(c) => ~disp[c].ready /\ calls[c] = {}

\* gateKeeper answered one request with 403 and the DELETE handler another
C2_Witness ==
  \E c, d \in Clients :
    /\ Answer(c) /\ Writer(c) = "gateKeeper" /\ res[c].status = 403
    /\ Answer(d) /\ Writer(d) = "deleteHub"

(***************************************************************************)
(* C3.  After a failure signalled at position p the next handler run is    *)
(* the first error handler after p whose scope contains the request path,  *)
(* or the final handler when there is none; no normal handler runs in      *)
(* between.  A failure of validateId or requireBody reaches the error      *)
(* handler of server.js, with helmet, addName, morgan and gateKeeper       *)
(* skipped; when that handler signals the failure again the final handler  *)
(* answers, and its answer is not empty.                                   *)
(***************************************************************************)
\* the error handlers after position p whose scope contains the path
ErrorHandlersAfter(p, path) ==
  {q \in (p + 1)..Len(server) :
     server[q].kind = "error" /\ MatchPrefix(server[q].path, path)}

C3_NextAfterFail(c, i) ==
  LET p == log[c][i].pos
      eh == ErrorHandlersAfter(p, req[c].path)
      nxt == log[c][i + 1]
  IN /\ nxt.ev = "start"
     /\ IF eh = {}
        THEN nxt.h = "finalhandler"
        ELSE /\ nxt.pos \in eh
             /\ \A q \in eh : nxt.pos <= q
             /\ nxt.h = server[nxt.pos].h

\* C3: after a failure the first eligible error handler after it runs next,
\* else the final handler; a guard's failure ends in a non-empty 500
C3_ErrorRouting ==
  \A c \in Clients :
    /\ \A i \in At(c, "fail") :
         /\ i < Len(log[c]) => C3_NextAfterFail(c, i)
         /\ log[c][i].h \in {"validateId", "requireBody"} /\ i < Len(log[c])
              => log[c][i + 1].h = "errorHandler"
         /\ log[c][i].h = "errorHandler" /\ i + 2 <= Len(log[c])
              => /\ log[c][i + 1].h = "finalhandler"
                 /\ log[c][i + 2].ev = "write"
                 /\ res[c].status = 500
                 /\ res[c].body.tag = "error"
                 /\ res[c].body.err.message # ""
    /\ At(c, "fail") # {}
         => \A j \in 1..Len(Started(c)) :
              Started(c)[j] \notin {"helmet", "addName", "morgan", "gateKeeper", "root"}

\* a guard of the hubs router failed, the error handler ran and signalled the
\* failure again, and the final handler answered
C3_Witness ==
  \E c \in Clients :
    /\ Answer(c) /\ Writer(c) = "finalhandler"
    /\ \E i \in At(c, "fail") :
         /\ log[c][i].h = "requireBody"
         /\ log[c][i + 1].h = "errorHandler"
         /\ log[c][i + 2].ev = "fail"

RepeatedDelete(c) ==
  /\ req[c].method = "DELETE"
  /\ req[c].path \in seen[c]
  /\ Answer(c)

\* the claim as the spec states it: the repeated DELETE is answered 404
C5_RepeatedDeleteIs404 ==
  \A c \in Clients : RepeatedDelete(c) => res[c].status = 404

\* C5: the repeated DELETE is answered 500 by the final handler with the
\* guard's failure value, and the DELETE handler does not run
C5_RepeatedDeleteIs500 ==
  \A c \in Clients :
    RepeatedDelete(c)
      => /\ res[c].status = 500
         /\ Writer(c) = "finalhandler"
         /\ res[c].body.err.message
              \in {"the id you sent was invalid", "some major jam..."}
         /\ \A i \in 1..Len(Started(c)) : Started(c)[i] # "deleteHub"

\* DELETE /api/hubs/1 was answered 200 and its repetition has been answered
\* after the lookup found no record
C5_Witness ==
  \E c \in Clients :
    /\ RepeatedDelete(c)
    /\ req[c].path = HubPath("1")
    /\ \E i \in At(c, "resume") :
         log[c][i].h = "validateId" /\ log[c][i].val = "absent"

(***************************************************************************)
(* C6.  When the persistence call of a terminal handler is rejected, the   *)
(* handler itself answers 500 with its own fixed message; it does not call *)
(* next(value), the request stays on the normal track and the error        *)
(* handler is not run.                                                     *)
(***************************************************************************)
Terminals ==
  {"getHubs", "postHub", "deleteHub", "putHub", "getHubMessages", "postHubMessage"}

\* a terminal handler of client c resumed at i after its call was rejected
RejectedAt(c, i) ==
  /\ i \in At(c, "resume")
  /\ log[c][i].h \in Terminals
  /\ log[c][i].val = "rejected"

\* the claim as the spec states it: the handler signals fail
C6_RejectionSignalsFail ==
  \A c \in Clients :
    \A i \in 1..Len(log[c]) :
      RejectedAt(c, i) => i < Len(log[c]) /\ log[c][i + 1].ev = "fail"

\* the message each terminal handler answers a rejected call with
C6_Message(h) ==
  CASE h = "getHubs" -> "Error retrieving the hubs"
    [] h = "postHub" -> "Error adding the hub"
    [] h = "deleteHub" -> "Error removing the hub"
    [] h = "putHub" -> "Error updating the hub"
    [] h = "getHubMessages" -> "Error getting the messages for the hub"
    [] h = "postHubMessage" -> "Error getting the messages for the hub"

\* C6: a terminal handler answers its rejected call with 500 and its own
\* message, and signals nothing
C6_RejectionAnswers500 ==
  \A c \in Clients :
    \A i \in 1..Len(log[c]) :
      RejectedAt(c, i)
        => /\ i + 1 = Len(log[c])
           /\ log[c][i + 1].ev = "write"
           /\ log[c][i + 1].h = log[c][i].h
           /\ res[c].status = 500
           /\ res[c].body.tag = "message"
           /\ res[c].body.message = C6_Message(log[c][i].h)
           /\ disp[c].track = "NORMAL_DISPATCH"
           /\ At(c, "fail") = {}
           /\ \A j \in 1..Len(Started(c)) : Started(c)[j] # "errorHandler"

\* the find of GET /api/hubs was rejected for one client and the add of a
\* message for the other, and both have their answer
C6_Witness ==
  \E c, d \in Clients :
    /\ \E i \in 1..Len(log[c]) : RejectedAt(c, i) /\ log[c][i].h = "getHubs"
    /\ \E i \in 1..Len(log[d]) : RejectedAt(d, i) /\ log[d][i].h = "postHubMessage"
    /\ Answer(c) /\ Answer(d)

(***************************************************************************)
(* C7.  For every route registered in the hubs router, the handlers run on *)
(* the normal track for a request are a prefix of: methodLogger, the body  *)
(* parser, the router's own middleware, then the route's chain in          *)
(* registration order.  For the route GET / of server.js, registered after *)
(* the mount, they are a prefix of: methodLogger, the body parser, helmet, *)
(* addName, morgan, gateKeeper, the route's handler.  The order does not   *)
(* depend on timing or on the other requests in flight.                    *)
(***************************************************************************)
\* the chain registered for the METHOD/url of request q, <<>> when none is
ChainOf(q) ==
  CASE q.path = RootPath /\ q.method = "GET" -> <<"root">>
    [] q.path = HubsPath /\ q.method = "GET" -> <<"getHubs">>
    [] q.path = HubsPath /\ q.method = "POST" -> <<"requireBody", "postHub">>
    [] Len(q.path) = 3 /\ SubSeq(q.path, 1, 2) = HubsPath /\ q.method = "GET" ->
         <<"validateId", "getHub">>
    [] Len(q.path) = 3 /\ SubSeq(q.path, 1, 2) = HubsPath /\ q.method = "DELETE" ->
         <<"validateId", "deleteHub">>
    [] Len(q.path) = 3 /\ SubSeq(q.path, 1, 2) = HubsPath /\ q.method = "PUT" ->
         <<"validateId", "requireBody", "putHub">>
    [] Len(q.path) = 4 /\ SubSeq(q.path, 1, 2) = HubsPath /\ q.path[4] = "messages"
       /\ q.method = "GET" ->
         <<"validateId", "getHubMessages">>
    [] Len(q.path) = 4 /\ SubSeq(q.path, 1, 2) = HubsPath /\ q.path[4] = "messages"
       /\ q.method = "POST" ->
         <<"validateId", "requireBody", "postHubMessage">>
    [] OTHER -> <<>>

InFlightOrDone(c) == disp[c].track # "IDLE"

\* the claim as the spec states it, for every registered route
C7_OrderAsStated ==
  \A c \in Clients :
    InFlightOrDone(c) /\ ChainOf(req[c]) # <<>>
      => IsPrefix(StartedNormal(c),
                  <<"methodLogger", "json", "hubsLogger">> \o ChainOf(req[c]))

\* C7: the handlers run on the normal track are a prefix of the sequence
\* registered for the request's route
C7_ExecutionOrder ==
  \A c \in Clients :
    InFlightOrDone(c) /\ ChainOf(req[c]) # <<>>
      => IF req[c].path = RootPath
         THEN IsPrefix(StartedNormal(c),
                       <<"methodLogger", "json", "helmet", "addName", "morgan",
                         "gateKeeper">> \o ChainOf(req[c]))
         ELSE IsPrefix(StartedNormal(c),
                       <<"methodLogger", "json", "hubsLogger">> \o ChainOf(req[c]))

\* PUT /api/hubs/1 ran its whole chain while another request for a hubs route
\* was in flight
C7_Witness ==
  \E c, d \in Clients :
    /\ c # d
    /\ req[c].method = "PUT"
    /\ StartedNormal(c) =
         <<"methodLogger", "json", "hubsLogger", "validateId", "requireBody", "putHub">>
    /\ Answer(c)
    /\ Len(StartedNormal(d)) >= 4

(***************************************************************************)
(* C8.  Within one request at most one handler is suspended at any time,   *)
(* and a handler starts only when none of the request is suspended and the *)
(* one before it has called next() or next(value): the handler after       *)
(* validateId does not start before the lookup of validateId has settled   *)
(* and validateId has gone on, whatever other requests do meanwhile.       *)
(***************************************************************************)
\* this step starts a handler for client c
Starts(c) ==
  /\ Len(log'[c]) > Len(log[c])
  /\ log'[c][Len(log[c]) + 1].ev = "start"

C8_OneHandlerAtATime ==
  [][\A c \in Clients :
       /\ Cardinality(calls'[c]) <= 1
       /\ Starts(c)
            => /\ calls[c] = {}
               /\ \/ log[c] = <<>>
                  \/ log[c][Len(log[c])].ev \in {"advance", "fail"}]_vars

\* validateId of one request is suspended on its lookup while a handler of
\* another request, started later, is suspended too
C8_Witness ==
  \E c, d \in Clients :
    /\ c # d
    /\ \E k \in calls[c] : k.h = "validateId" /\ ~k.settled
    /\ \E k \in calls[d] : k.h \in Terminals

(***************************************************************************)
(* C9.  validateId never writes the response and signals exactly once,     *)
(* when its lookup has settled: it attaches the record and calls next() if *)
(* and only if findById returned a record; when findById returned nothing  *)
(* or was rejected it calls next(value) with a message and attaches        *)
(* nothing.                                                                *)
(***************************************************************************)
C9_ValidateId ==
  \A c \in Clients :
    LET V == {i \in 1..Len(log[c]) : log[c][i].h = "validateId"}
        signals == {i \in V : log[c][i].ev \in {"advance", "fail"}}
        resumes == {i \in V : log[c][i].ev = "resume"}
    IN /\ \A i \in V : log[c][i].ev # "write"
       /\ Cardinality(signals) <= 1
       /\ Cardinality(signals) = Cardinality(resumes)
       /\ resumes = {} => ~ctx[c].hasHub /\ ctx[c].hub = NoRec
       /\ \A i \in resumes :
            /\ i + 1 \in signals
            /\ IF log[c][i].val = "ok"
               THEN /\ log[c][i + 1].ev = "advance"
                    /\ ctx[c].hasHub
                    /\ ctx[c].hub = log[c][i].rec
                    /\ ToString(ctx[c].hub.id) = req[c].path[3]
               ELSE /\ log[c][i + 1].ev = "fail"
                    /\ log[c][i + 1].val # ""
                    /\ ~ctx[c].hasHub
                    /\ ctx[c].hub = NoRec

\* the lookup of one request found its hub, the lookup of another was rejected
C9_Witness ==
  \E c, d \in Clients :
    /\ \E i \in At(c, "resume") :
         log[c][i].h = "validateId" /\ log[c][i].val = "ok" /\ ctx[c].hasHub
    /\ \E i \in At(d, "resume") :
         log[d][i].h = "validateId" /\ log[d][i].val = "rejected"

(***************************************************************************)
(* C10.  requireBody calls next(value) if and only if the decoded body is  *)
(* absent or has no keys, and next() otherwise; either way it signals      *)
(* once, writes nothing, suspends on nothing, and changes neither the      *)
(* request, its context nor the store.                                     *)
(***************************************************************************)
C10_RequireBody ==
  [][\A c \in Clients :
       Starts(c) /\ log'[c][Len(log[c]) + 1].h = "requireBody"
         => LET n == Len(log[c]) IN
            /\ Len(log'[c]) = n + 2
            /\ log'[c][n + 2].h = "requireBody"
            /\ log'[c][n + 2].ev =
                 IF ~req[c].body.present \/ Keys(req[c].body.fields) = {}
                 THEN "fail" ELSE "advance"
            /\ UNCHANGED <<req, ctx, res, calls, hubs, messages, nextId>>]_vars

\* requireBody failed one request for its absent body and let another pass
C10_Witness ==
  \E c, d \in Clients :
    /\ req[c].body = AbsentBody
    /\ \E i \in At(c, "fail") : log[c][i].h = "requireBody"
    /\ \E i \in At(d, "advance") : log[d][i].h = "requireBody"

(***************************************************************************)
(* C11.  For GET of one hub whose record findById returned to validateId,  *)
(* the terminal handler answers 200 with exactly the record the guard put  *)
(* on the request: the body is the value findById returned to this         *)
(* request, whatever happened to the stored hub since, and the request     *)
(* makes no persistence call but that one lookup.                          *)
(***************************************************************************)
\* request q is for one hub: METHOD /api/hubs/:id
ForOneHub(q, method) ==
  /\ q.method = method
  /\ Len(q.path) = 3
  /\ SubSeq(q.path, 1, 2) = HubsPath

\* validateId of client c resumed at i with the record its lookup found
FoundAt(c, i) ==
  /\ i \in At(c, "resume")
  /\ log[c][i].h = "validateId"
  /\ log[c][i].val = "ok"

\* C11: GET of one hub is answered 200 with the record validateId attached,
\* the value findById returned, and the request makes no other call
C11_GetHubReturnsAttached ==
  \A c \in Clients :
    \A i \in 1..Len(log[c]) :
      ForOneHub(req[c], "GET") /\ FoundAt(c, i)
        => /\ ctx[c].hub = log[c][i].rec
           /\ At(c, "call") = {i - 1}
           /\ log[c][i - 1].val = "findById"
           /\ calls[c] = {}
           /\ IF Answer(c)
              THEN /\ Writer(c) = "getHub"
                   /\ res[c].status = 200
                   /\ res[c].body = JsonRec(log[c][i].rec)
              ELSE disp[c].ready /\ disp[c].track = "NORMAL_DISPATCH"

\* GET /api/hubs/1 was answered with the record its lookup found, which
\* another request has changed or removed in the meantime
C11_Witness ==
  \E c \in Clients :
    /\ ForOneHub(req[c], "GET")
    /\ \E i \in 1..Len(log[c]) : FoundAt(c, i)
    /\ Answer(c)
    /\ res[c].status = 200
    /\ res[c].body.rec # NoRec
    /\ res[c].body.rec \notin hubs

(***************************************************************************)
(* C12.  A route's pattern matches only a path with as many segments, the  *)
(* same literal segments and a non-empty segment for each parameter:       *)
(* /:id/messages matches /42/messages with id = "42" and does not match    *)
(* /42.  Every method and path match at most one of the seven routes of    *)
(* the hubs router.  The dispatcher runs the first route in registration   *)
(* order whose method and pattern both match, so a request for             *)
(* /:id/messages is never given to the chain of /:id.                      *)
(***************************************************************************)
Methods == {"GET", "POST", "PUT", "DELETE"}

\* paths under the mount point, as the router sees them: up to three segments
Segments == {"1", "42", "messages", ""}

RouterPaths ==
  {<<>>} \cup {<<a>> : a \in Segments}
  \cup {<<a, b>> : a, b \in Segments}
  \cup {<<a, b, d>> : a, b, d \in Segments}

\* the routes of the hubs router: the method and pattern of each chain
RoutesOf(router) ==
  {[method |-> router[i].method, path |-> router[i].path] :
     i \in {j \in 1..Len(router) : router[j].kind = "route"}}

\* the routes of the router that method and path match
Matching(router, method, path) ==
  {r \in RoutesOf(router) : r.method = method /\ MatchPattern(r.path, path)}

IdMessages == <<Param("id"), Lit("messages")>>

C12_Matcher ==
  /\ MatchPattern(IdMessages, <<"42", "messages">>)
  /\ ParamOf(IdMessages, <<"42", "messages">>, "id") = "42"
  /\ ~MatchPattern(IdMessages, <<"42">>)
  /\ ~MatchPattern(<<Param("id")>>, <<"42", "messages">>)
  /\ ~MatchPattern(<<Param("id")>>, <<"">>)
  /\ Cardinality(RoutesOf(hubsRouter)) = 7
  /\ \A m \in Methods, p \in RouterPaths :
       /\ Cardinality(Matching(hubsRouter, m, p)) <= 1
       /\ \A r \in Matching(hubsRouter, m, p) :
            /\ Len(r.path) = Len(p)
            /\ \A i \in 1..Len(p) :
                 IF r.path[i].param THEN p[i] # "" ELSE p[i] = r.path[i].name

\* the positions of the route entries of the server that serve request q
RouteStopsOf(q) ==
  {p \in 1..Len(server) :
     /\ server[p].kind = "route"
     /\ server[p].method = q.method
     /\ MatchPattern(server[p].path, q.path)}

\* the same for every request, and the idle connection's lack of one
RouteStopsTable == [q \in Requests \cup {NoReq} |-> RouteStopsOf(q)]

RouteStops(q) == RouteStopsTable[q]

\* the pattern of the first route that serves request q, when there is one
FirstRoute ==
  [q \in Requests \cup {NoReq} |->
     IF RouteStopsOf(q) = {} THEN <<>>
     ELSE server[CHOOSE o \in RouteStopsOf(q) :
                   \A n \in RouteStopsOf(q) : o <= n].path]

\* the route handlers started for client c's request, as positions
RoutesStarted(c) ==
  {log[c][i].pos : i \in {j \in At(c, "start") :
                            /\ log[c][j].pos <= Len(server)
                            /\ server[log[c][j].pos].kind = "route"}}

\* C12: the pattern matcher is as stated, at most one route of the hubs router
\* matches, and only handlers of the first matching route are started
C12_RouteSelection ==
  /\ C12_Matcher
  /\ \A c \in Clients :
       /\ RoutesStarted(c) \subseteq RouteStops(req[c])
       /\ \A p \in RoutesStarted(c) :
            /\ \A o \in RouteStops(req[c]) : o < p => o \in RoutesStarted(c)
            /\ server[p].path = FirstRoute[req[c]]
       /\ Len(req[c].path) = 4
            => \A i \in 1..Len(Started(c)) :
                 Started(c)[i] \notin {"getHub", "deleteHub", "putHub"}

\* GET /api/hubs/1/messages was answered by the handler of /:id/messages
C12_Witness ==
  \E c \in Clients :
    /\ req[c] = Request("GET", HubMessagesPath("1"), AbsentBody)
    /\ Answer(c)
    /\ Writer(c) = "getHubMessages"
    /\ res[c].status = 200

(***************************************************************************)
(* C13.  Mounting is associative: a router mounted under /x and the result *)
(* mounted under /y has the same entries, with the same paths and in the   *)
(* same order, as the router mounted under /y/x.  The hubs router mounted  *)
(* under /hubs and then under /api gives the server the table it has, and  *)
(* every request the same next stop.                                       *)
(***************************************************************************)
\* the prefixes a router is mounted under: up to two segments
PrefixSegments == {Lit("api"), Lit("hubs"), Param("org")}

Prefixes ==
  {<<>>} \cup {<<a>> : a \in PrefixSegments}
  \cup {<<a, b>> : a, b \in PrefixSegments}

\* the routers mounted: every run of consecutive entries of the hubs router,
\* and the server's own error handler and route
Routers ==
  {SubSeq(hubsRouter, i, j) : i \in 1..Len(hubsRouter), j \in 0..Len(hubsRouter)}
  \cup {UseError(<<>>, "errorHandler") \o Route("GET", <<>>, <<"root">>)}

MountAssociative ==
  \A B \in Routers, x, y \in Prefixes :
    Mount(y, Mount(x, B)) = Mount(y \o x, B)

\* the server with the hubs router mounted in two steps
serverTwoSteps ==
  preMount
  \o Mount(<<Lit("api")>>, Mount(<<Lit("hubs")>>, hubsRouter))
  \o postMount
  \o UseError(<<>>, "errorHandler")
  \o Route("GET", <<>>, <<"root">>)

\* the dispatcher's next stop over the table mounted in two steps
NextStopTwoSteps ==
  [track \in Tracks |->
     [pos \in 0..FinalPos |->
        [q \in Requests |-> NextPos(serverTwoSteps, pos, q, track)]]]

TwoStepsSameTable == serverTwoSteps = server

MountFrom == Len(preMount) + 1
MountTo == Len(preMount) + Len(hubsRouter)

\* /api/hubs as the path of a registration
HubsPathPattern == <<Lit("api"), Lit("hubs")>>

AfterMount == {"helmet", "addName", "morgan", "gateKeeper"}

\* the request of client c got its answer from the hubs router: from one of
\* its handlers, or from the final handler after one of its guards failed
AnsweredByRouter(c) ==
  /\ Answer(c)
  /\ \/ Writer(c) \in Terminals \cup {"getHub"}
     \/ /\ Writer(c) = "finalhandler"
        /\ \E i \in At(c, "fail") : log[c][i].h \in {"validateId", "requireBody"}

\* the router's entries stand between the body parser and helmet, in order
Spliced ==
  /\ server[MountFrom - 1].h = "json"
  /\ server[MountTo + 1].h = "helmet"
  /\ \A i \in 1..Len(hubsRouter) :
       /\ server[MountFrom + i - 1].h = hubsRouter[i].h
       /\ server[MountFrom + i - 1].kind = hubsRouter[i].kind
       /\ server[MountFrom + i - 1].method = hubsRouter[i].method
       /\ server[MountFrom + i - 1].path = HubsPathPattern \o hubsRouter[i].path

\* C14: the router stands between the body parser and helmet; a request it
\* answers runs none of helmet, addName, morgan, gateKeeper and is never 403
C14_SplicedAtMount ==
  /\ Spliced
  /\ \A c \in Clients :
       AnsweredByRouter(c)
         => /\ \A i \in 1..Len(Started(c)) : Started(c)[i] \notin AfterMount
            /\ res[c].status # 403
            /\ \A i \in At(c, "start") :
                 log[c][i].pos <= MountTo \/ log[c][i].h \in {"errorHandler", "finalhandler"}

\* POST /api/hubs was answered 201 by the router's handler and another request
\* for the router by the final handler after its guard failed, both without
\* passing gateKeeper
C14_Witness ==
  \E c, d \in Clients :
    /\ c # d
    /\ AnsweredByRouter(c) /\ Writer(c) = "postHub" /\ res[c].status = 201
    /\ AnsweredByRouter(d) /\ Writer(d) = "finalhandler"

(***************************************************************************)
(* C15.  When a guard of a route's chain calls next(value), no later       *)
(* handler of the chain runs and the request makes no call that changes    *)
(* the store (add, update, remove, add of a message): the stored hubs and  *)
(* messages are as the request found them.  For PUT /:id and               *)
(* POST /:id/messages with an unknown id and an empty body, requireBody    *)
(* does not run and the failure value is that of validateId.               *)
(***************************************************************************)
Guards == {"validateId", "requireBody"}

Mutations == {"add", "update", "remove", "addMessage"}

\* a guard of client c's request signalled a failure at i
GuardFailedAt(c, i) == i \in At(c, "fail") /\ log[c][i].h \in Guards

\* the request of client c has a chain with both guards
BothGuards(c) ==
  \/ ForOneHub(req[c], "PUT")
  \/ req[c].method = "POST" /\ Len(req[c].path) = 4

\* a guard of client c's request has signalled a failure
GuardFailed(c) == \E i \in 1..Len(log[c]) : GuardFailedAt(c, i)

\* the id of client c's request is unknown: no lookup of the request found
\* the hub, and none was rejected
UnknownId(c) ==
  /\ ~ctx[c].hasHub
  /\ \A j \in At(c, "resume") : log[c][j].val # "rejected"

\* what holds of client c's request once a guard has failed at i
C15_AfterFailure(c, i) ==
  /\ \A j \in At(c, "start") :
       j > i => log[c][j].h \in {"errorHandler", "finalhandler"}
  /\ \A j \in At(c, "call") : log[c][j].val \notin Mutations
  /\ \A k \in calls[c] : k.call.op \notin Mutations
  /\ \A j \in 1..Len(log[c]) : GuardFailedAt(c, j) => j = i
  /\ BothGuards(c) /\ req[c].body = EmptyBody /\ UnknownId(c)
       => /\ log[c][i].h = "validateId"
          /\ log[c][i].val = "the id you sent was invalid"
          /\ \A j \in 1..Len(Started(c)) : Started(c)[j] # "requireBody"

\* this step is one of client c's request
OwnStep(c) ==
  \/ calls'[c] # calls[c]
  \/ log'[c] # log[c]
  \/ disp'[c] # disp[c]
  \/ res'[c] # res[c]

\* C15: after a guard failure no later handler of the chain runs and the
\* request changes nothing in the store; with an unknown id and an empty body
\* the failure is that of validateId
C15_GuardFailureChangesNothing ==
  [][\A c \in Clients :
       OwnStep(c)
         => /\ \A i \in 1..Len(log'[c]) :
                 GuardFailedAt(c, i)' => C15_AfterFailure(c, i)'
            /\ GuardFailed(c) \/ GuardFailed(c)'
                 => UNCHANGED <<hubs, messages, nextId>>]_vars

\* PUT /api/hubs/2 with an empty body was answered after validateId failed,
\* and POST /api/hubs/1/messages with an empty body after requireBody failed
C15_Witness ==
  \E c, d \in Clients :
    /\ req[c] = Request("PUT", HubPath("2"), EmptyBody)
    /\ Answer(c)
    /\ res[c].body.err.message = "the id you sent was invalid"
    /\ req[d] = Request("POST", HubMessagesPath("1"), EmptyBody)
    /\ Answer(d)
    /\ \E i \in 1..Len(log[d]) : GuardFailedAt(d, i) /\ log[d][i].h = "requireBody"

(***************************************************************************)
(* C16.  The error handler of server.js runs only right after a call of    *)
(* next(value): a request no handler fails passes it by.  A GET / request  *)
(* is answered either 403 by gateKeeper, and then the route handler does   *)
(* not run, or with the welcome page by the route handler, and then        *)
(* addName has run before and the name in the page is the one it set.      *)
(* methodLogger runs before addName and sees no name.                      *)
(***************************************************************************)
\* the handlers registered for GET /, in registration order
RootSequence ==
  <<"methodLogger", "json", "helmet", "addName", "morgan", "gateKeeper", "root">>

\* C16: the error handler runs only after a failure; GET / ends 403 by
\* gateKeeper or with the welcome page carrying the name addName set
C16_ErrorHandlerSkipped ==
  \A c \in Clients :
    /\ \A i \in At(c, "start") :
         /\ log[c][i].h = "errorHandler"
              => i > 1 /\ log[c][i - 1].ev = "fail"
         /\ log[c][i].h = "methodLogger"
              => /\ i = 1
                 /\ log[c][i].val = ""
                 /\ \A j \in At(c, "start") : log[c][j].h = "addName" => i < j
    /\ At(c, "fail") = {}
         => \A i \in 1..Len(Started(c)) : Started(c)[i] # "errorHandler"
    /\ req[c] = Request("GET", RootPath, AbsentBody)
         => /\ IsPrefix(Started(c), RootSequence)
            /\ Answer(c)
                 => \/ /\ Writer(c) = "gateKeeper"
                       /\ res[c].status = 403
                       /\ Started(c) = SubSeq(RootSequence, 1, 6)
                    \/ /\ Writer(c) = "root"
                       /\ res[c].status = 200
                       /\ Started(c) = RootSequence
                       /\ res[c].body.tag = "html"
                       /\ res[c].body.message = "sk"
                       /\ ctx[c].name = "sk"

\* a GET / was answered with the welcome page and the name addName set, the
\* route handler having passed by the error handler registered before it
C16_Witness ==
  \E c \in Clients :
    /\ req[c] = Request("GET", RootPath, AbsentBody)
    /\ Answer(c)
    /\ Writer(c) = "root"
    /\ res[c].body.message = "sk"
    /\ server[disp[c].pos - 1].h = "errorHandler"
    /\ Started(c) = RootSequence

(***************************************************************************)
(* C17.  When requests are served one at a time, DELETE /:id and PUT /:id  *)
(* are never answered 404.  Their handlers answer 404 only when another    *)
(* request removed the hub after this request's validateId had found it    *)
(* and before its own remove or update: of two DELETEs of the same stored  *)
(* hub in flight together, one can be answered 200 and the other 404.      *)
(***************************************************************************)
\* the requests so far were served one at a time: a request takes the first
\* free connection, so a later connection is used only by a request that
\* arrived while another was in flight
Serial ==
  \A i \in 2..Len(Connections) : disp[Connections[i]].track = "IDLE"

\* DELETE /:id or PUT /:id of client c was answered 404
NotFound(c) ==
  /\ ForOneHub(req[c], "DELETE") \/ ForOneHub(req[c], "PUT")
  /\ Answer(c)
  /\ res[c].status = 404

\* the hub validateId found for client c's request has been removed since by
\* the DELETE of another request: one answered 200 after c's request arrived,
\* or one whose remove has returned and that has not gone on yet
RemovedMeanwhile(c) ==
  /\ ctx[c].hasHub
  /\ ToString(ctx[c].hub.id) = req[c].path[3]
  /\ HubsWithId(req[c].path[3]) = {}
  /\ \/ req[c].path \in answered \ seen[c]
     \/ \E d \in Clients \ {c} :
          /\ req[d] = Request("DELETE", req[c].path, AbsentBody)
          /\ \E k \in calls[d] :
               k.settled /\ k.call.op = "remove" /\ k.result.count > 0

\* C17: DELETE /:id and PUT /:id are answered 404 only when requests overlap
\* and another request removed the hub after validateId found it
C17_NotFoundOnlyByRace ==
  \A c \in Clients :
    NotFound(c)
      => /\ Writer(c) \in {"deleteHub", "putHub"}
         /\ ~Serial
         /\ RemovedMeanwhile(c)

\* two DELETEs of /api/hubs/1 were in flight together; one was answered 200
\* and the other 404
C17_Witness ==
  \E c, d \in Clients :
    /\ c # d
    /\ req[c] = Request("DELETE", HubPath("1"), AbsentBody)
    /\ req[d] = req[c]
    /\ Answer(c) /\ res[c].status = 200
    /\ Answer(d) /\ res[d].status = 404 /\ Writer(d) = "deleteHub"

(***************************************************************************)
(* C18.  POST /:id/messages calls Messages.add only after validateId has   *)
(* found the hub and requireBody has accepted the body; the message it     *)
(* passes carries the id of the path as hub_id, also when the body names   *)
(* another hub; and when Messages.add is called the hub with that id is    *)
(* still stored, whatever other requests do, a DELETE of the same hub      *)
(* included.                                                               *)
(***************************************************************************)
\* the calls of Messages.add client c's request makes in this step
AddsMessage(c) == {k \in calls'[c] \ calls[c] : k.call.op = "addMessage"}

\* the values the message of call k has for hub_id
HubIdsOf(k) == {p[2] : p \in {f \in k.call.data : f[1] = "hub_id"}}

\* validateId found the hub and requireBody accepted the body before
GuardsPassed(c) ==
  \E i, j \in At(c, "advance") :
    /\ i < j
    /\ log[c][i].h = "validateId"
    /\ log[c][j].h = "requireBody"

\* C18: Messages.add is called after both guards passed, with the path id as
\* hub_id, and while the hub with that id is stored
C18_MessageForStoredHub ==
  [][\A c \in Clients :
       \A k \in AddsMessage(c) :
         /\ GuardsPassed(c)
         /\ HubIdsOf(k) = {req[c].path[3]}
         /\ HubsWithId(req[c].path[3]) # {}]_vars

====
